---- MODULE Spec2Model ----
(***************************************************************************)
(* Model of watching.py: the EFTM dashboard.  One Streamlit process runs   *)
(* main() once per interaction; load_models() is wrapped in                *)
(* st.cache_resource; a prediction request merges the form's sensor values *)
(* with the time features, aligns them to the loaded feature-name list,    *)
(* calls the four models in order and combines the four scalars with the   *)
(* fixed weights of EFTMModel.                                             *)
(*                                                                         *)
(* Reals are fixed-point integers: the weights are scaled by 10^6, the     *)
(* models' outputs are integers, so an ensemble result r stands for        *)
(* r / 10^6.  Python's None and an unbound local are the empty sequence    *)
(* <<>>, a bound value v is <<v>>.                                         *)
(***************************************************************************)
EXTENDS Integers, Sequences, FiniteSets, TLC

VARIABLES
    files,        \* the working directory: artifact name -> "ok" | "absent" | "corrupt"
    fileEvents,   \* how many times the directory changed under the process
    cache,        \* st.cache_resource's entry for load_models: <<>> or <<its return value>>
    loadCount,    \* how many times the body of load_models ran
    loadSnapshot, \* the directory as the body of load_models saw it: <<>> or <<files>>
    pc,           \* where the current script run of main() is
    eftm_model,   \* main's local eftm_model: <<>> or <<an EFTMModel>>
    input_df,     \* main's local input_df: the columns [name, value] of its one row, in order
    preds,        \* the models' outputs so far: <<p_cb, p_xgb, p_lgbm, p_ab>> prefix
    calls,        \* per model (1..4): how many times its predict was invoked in this run
    p_final,      \* main's local p_final: <<>> or <<the ensemble result>>
    error,        \* what st.error showed in this run: <<>> or <<[kind, detail]>>
    prev,         \* how the latest request (a run that stopped or predicted) ended
    qm, qx, qy, qk, qout  \* the combiner alone: a model, two input quadruples, a scalar, the results

vars == <<files, fileEvents, cache, loadCount, loadSnapshot, pc, eftm_model,
          input_df, preds, calls, p_final, error, prev, qm, qx, qy, qk, qout>>

procVars == <<files, fileEvents, cache, loadCount, loadSnapshot, pc, eftm_model,
              input_df, preds, calls, p_final, error, prev>>

combVars == <<qm, qx, qy, qk, qout>>

-----------------------------------------------------------------------------
(* Bounds *)

MaxSchemaLen == 2     \* longest feature-name list tried
MaxFileEvents == 1    \* directory changes during the process
InputMax == 1         \* combiner inputs range over -1..InputMax
ScaleMax == 2         \* the scalar k ranges over -1..ScaleMax

-----------------------------------------------------------------------------
(* 3. EFTMModel *)

W_CB == 385412
W_XGB == 294103
W_LGBM == 211438
W_AB == 109047

\* A mutant of __init__: the first two arguments are stored in each other's field.
EFTMModel_init_Misassigned(w_cb, w_xgb, w_lgbm, w_ab) ==
    [w_cb |-> w_xgb, w_xgb |-> w_cb, w_lgbm |-> w_lgbm, w_ab |-> w_ab]

\* EFTMModel.__init__: stores its four arguments
EFTMModel_init(w_cb, w_xgb, w_lgbm, w_ab) ==
    [w_cb |-> w_cb, w_xgb |-> w_xgb, w_lgbm |-> w_lgbm, w_ab |-> w_ab]

\* EFTMModel(): the default arguments of __init__
EFTMModel_default == EFTMModel_init(W_CB, W_XGB, W_LGBM, W_AB)

\* A mutant of predict: the plain mean of the four models.
EFTMModel_predict_Unweighted(self, pred_cb, pred_xgb, pred_lgbm, pred_ab) ==
    250000 * (pred_cb + pred_xgb + pred_lgbm + pred_ab)

\* A mutant of predict: the result is clipped at zero (a concentration is not negative).
EFTMModel_predict_Clipped(self, pred_cb, pred_xgb, pred_lgbm, pred_ab) ==
    LET s == (self.w_cb * pred_cb) + (self.w_xgb * pred_xgb) + (self.w_lgbm * pred_lgbm)
               + (self.w_ab * pred_ab)
    IN  IF s < 0 THEN 0 ELSE s

\* A mutant of predict: the last two weights are exchanged.
EFTMModel_predict_Swapped(self, pred_cb, pred_xgb, pred_lgbm, pred_ab) ==
    (self.w_cb * pred_cb) + (self.w_xgb * pred_xgb) + (self.w_ab * pred_lgbm)
        + (self.w_lgbm * pred_ab)

\* EFTMModel.predict
EFTMModel_predict(self, pred_cb, pred_xgb, pred_lgbm, pred_ab) ==
    (self.w_cb * pred_cb) + (self.w_xgb * pred_xgb) + (self.w_lgbm * pred_lgbm)
        + (self.w_ab * pred_ab)

-----------------------------------------------------------------------------
(* 4. load_models *)

required_files ==
    <<"model_cb.pkl", "model_xgb.pkl", "model_lgbm.pkl", "model_ab.pkl", "feature_names.pkl">>

ArtifactSet == {required_files[i] : i \in 1..Len(required_files)}

FileStatus == {"ok", "absent", "corrupt"}

\* The form's twelve sensor fields (two of them here) and the six time features (one here);
\* a feature-name list may also name a field the form does not have.
SensorNames == {"inflow", "aerobic_south_pH"}
TimeNames == {"hour_sin"}
SchemaNames == SensorNames \cup TimeNames \cup {"effluent_COD"}

\* What feature_names.pkl can hold: a list of distinct names.
Schemas ==
    UNION {{s \in [1..n -> SchemaNames] : \A i, j \in 1..n : i # j => s[i] # s[j]}
           : n \in 0..MaxSchemaLen}

\* What the four model files can hold: models whose predict returns a constant.
StubBanks == {<<1, 2, 3, 4>>, <<-2, 0, 5, 1>>}

\* str(e) of a failed joblib.load
ExcTexts == {"invalid load key", "Ran out of input"}

\* The six values load_models returns
LoadResult(cb, xgb_m, lgbm, ab, feats, missing) ==
    [cb |-> cb, xgb_m |-> xgb_m, lgbm |-> lgbm, ab |-> ab, feats |-> feats,
     missing_files |-> missing]

\* joblib.load of model file i of a directory whose model files hold `bank`
Stub(i, bank) == [file |-> required_files[i], ret |-> bank[i]]

\* A mutant of load_models: the existence check covers the model files only, and a
\* failed joblib.load leaves its variable None instead of abandoning the load.
load_models_Partial(fs, bank, feats, msg) ==
    LET missing == SelectSeq(SubSeq(required_files, 1, 4), LAMBDA f : fs[f] = "absent")
        get(i) == IF fs[required_files[i]] = "ok" THEN <<Stub(i, bank)>> ELSE <<>>
    IN  IF missing # <<>>
        THEN LoadResult(<<>>, <<>>, <<>>, <<>>, <<>>, missing)
        ELSE LoadResult(get(1), get(2), get(3), get(4),
                        IF fs[required_files[5]] = "ok" THEN <<feats>> ELSE <<>>, <<>>)

\* load_models (its body): `bank` and `feats` are what the files hold, `msg` the text
\* of the exception a corrupt file raises.
load_models(fs, bank, feats, msg) ==
    LET missing == SelectSeq(required_files, LAMBDA f : fs[f] = "absent")
    IN  IF missing # <<>>
        THEN LoadResult(<<>>, <<>>, <<>>, <<>>, <<>>, missing)
        ELSE IF \E f \in ArtifactSet : fs[f] = "corrupt"
             THEN LoadResult(<<>>, <<>>, <<>>, <<>>, <<>>, <<msg>>)
             ELSE LoadResult(<<Stub(1, bank)>>, <<Stub(2, bank)>>, <<Stub(3, bank)>>,
                             <<Stub(4, bank)>>, <<feats>>, <<>>)

\* A mutant of the cache: no entry is ever found.
CacheHit_Never(c) == FALSE

\* st.cache_resource: load_models takes no argument, so one entry serves every call
CacheHit(c) == c # <<>>

-----------------------------------------------------------------------------
(* 5. main *)

NoCalls == [i \in 1..4 |-> 0]

Init ==
    /\ files \in [ArtifactSet -> FileStatus]
    /\ fileEvents = 0
    /\ cache = <<>>
    /\ loadCount = 0
    /\ loadSnapshot = <<>>
    /\ pc = "idle"
    /\ eftm_model = <<>>
    /\ input_df = <<>>
    /\ preds = <<>>
    /\ calls = NoCalls
    /\ p_final = <<>>
    /\ error = <<>>
    /\ prev = "none"
    /\ qm = EFTMModel_default
    /\ qx = <<0, 0, 0, 0>>
    /\ qy = <<0, 0, 0, 0>>
    /\ qk = 0
    /\ qout = <<>>

\* The directory changes under the running process (a file is uploaded, removed, damaged).
FileChange ==
    /\ pc = "idle"
    /\ fileEvents < MaxFileEvents
    /\ \E f \in ArtifactSet, st \in FileStatus :
        /\ files[f] # st
        /\ files' = [files EXCEPT ![f] = st]
    /\ fileEvents' = fileEvents + 1
    /\ UNCHANGED <<cache, loadCount, loadSnapshot, pc, eftm_model, input_df,
                   preds, calls, p_final, error, prev>>
    /\ UNCHANGED combVars

\* Lines 108-120 of main: the two load checks, then `eftm_model = EFTMModel()`.
CheckLoad(ret) ==
    IF ret.missing_files # <<>>
    THEN /\ error' = <<[kind |-> "load", detail |-> ret.missing_files, at |-> 0]>>
         /\ pc' = "stopped_load"
         /\ eftm_model' = <<>>
    ELSE IF ret.cb = <<>>
         THEN /\ error' = <<[kind |-> "load", detail |-> <<"unknown error">>, at |-> 0]>>
              /\ pc' = "stopped_load"
              /\ eftm_model' = <<>>
         ELSE /\ error' = <<>>
              /\ pc' = "form"
              /\ eftm_model' = <<EFTMModel_default>>

\* A script run starts: main() down to line 120.  load_models() is answered from the
\* cache, or its body runs on the directory as it is and the result is cached.
RunScript ==
    /\ pc = "idle"
    /\ \/ /\ CacheHit(cache)
          /\ UNCHANGED <<cache, loadCount, loadSnapshot>>
          /\ CheckLoad(cache[1])
       \/ /\ ~CacheHit(cache)
          /\ \E bank \in StubBanks, feats \in Schemas, msg \in ExcTexts :
                /\ cache' = <<load_models(files, bank, feats, msg)>>
                /\ CheckLoad(load_models(files, bank, feats, msg))
          /\ loadCount' = loadCount + 1
          /\ loadSnapshot' = <<files>>
    /\ UNCHANGED <<files, fileEvents, input_df, preds, calls, p_final, prev>>
    /\ UNCHANGED combVars

\* The script run is over (st.stop(), or the end of main): its locals are gone.
EndRun ==
    /\ pc \in {"form", "stopped_load", "stopped_missing", "stopped_predict", "done"}
    /\ prev' = (IF pc = "form" THEN prev ELSE pc)
    /\ pc' = "idle"
    /\ eftm_model' = <<>>
    /\ input_df' = <<>>
    /\ preds' = <<>>
    /\ calls' = NoCalls
    /\ p_final' = <<>>
    /\ error' = <<>>
    /\ UNCHANGED <<files, fileEvents, cache, loadCount, loadSnapshot>>
    /\ UNCHANGED combVars

\* What the user types into a number_input, and the hour of the time_input.
ObsVals == {0, 1}
Hours == {0, 6}

\* np.sin(2 * np.pi * hour / 24) at the hours used
HourSin(h) == IF h = 6 THEN 1 ELSE 0

\* {**input_data, **time_feats}: the time features are written over the sensor fields
MergedMapping(input_data, hour) ==
    [n \in SensorNames \cup TimeNames |->
        IF n \in TimeNames THEN HourSin(hour) ELSE input_data[n]]

MergedNames == SensorNames \cup TimeNames

\* The orders in which a mapping with these keys can have been filled.  main fills it
\* sensor fields first, time features last; the alignment is checked for every order.
InsertionOrders ==
    {o \in [1..Cardinality(MergedNames) -> MergedNames] :
        \A i, j \in DOMAIN o : i # j => o[i] # o[j]}

\* pd.DataFrame([mapping]): one row, one column per key, in insertion order
DataFrame(mapping, order) ==
    [i \in DOMAIN order |-> [name |-> order[i], value |-> mapping[order[i]]]]

ColumnNames(df) == [i \in DOMAIN df |-> df[i].name]

ColumnSet(df) == {df[i].name : i \in DOMAIN df}

ValueOf(df, n) == df[CHOOSE i \in DOMAIN df : df[i].name = n].value

\* input_df[feature_names]: the keys that are no column of df, in key order
MissingKeys(df, key) == SelectSeq(key, LAMBDA n : n \notin ColumnSet(df))

\* The names a KeyError of input_df[feature_names] carries: every key when none is a
\* column ("None of [...] are in the [columns]"), else the absent ones ("[...] not in index")
KeyErrorNames(df, key) ==
    IF Len(MissingKeys(df, key)) = Len(key) THEN key ELSE MissingKeys(df, key)

\* A mutant of the selection: the wanted columns are kept in the frame's own order.
df_getitem_Filter(df, key) ==
    SelectSeq(df, LAMBDA c : \E i \in DOMAIN key : key[i] = c.name)

\* input_df[feature_names] when every key is a column: the keys' columns, in key order
df_getitem(df, key) ==
    [i \in DOMAIN key |-> [name |-> key[i], value |-> ValueOf(df, key[i])]]

\* The button is pressed: lines 160-174, the merged one-row DataFrame.
ClickPredict ==
    /\ pc = "form"
    /\ \E input_data \in [SensorNames -> ObsVals], hour \in Hours, order \in InsertionOrders :
        /\ input_df' = DataFrame(MergedMapping(input_data, hour), order)
    /\ pc' = "merged"
    /\ UNCHANGED <<files, fileEvents, cache, loadCount, loadSnapshot, eftm_model, preds,
                   calls, p_final, error, prev>>
    /\ UNCHANGED combVars

\* A mutant of the handler: the KeyError is swallowed and the run goes on.
OnKeyError_Swallowed == "call_cb"

\* except KeyError: st.error, st.stop()
OnKeyError == "stopped_missing"

\* Lines 175-178: the columns are aligned to feature_names, or a KeyError stops the run.
Align ==
    /\ pc = "merged"
    /\ LET feature_names == cache[1].feats[1]
       IN  IF MissingKeys(input_df, feature_names) # <<>>
           THEN /\ error' = <<[kind |-> "missing",
                               detail |-> KeyErrorNames(input_df, feature_names), at |-> 0]>>
                /\ pc' = OnKeyError
                /\ input_df' = input_df
           ELSE /\ input_df' = df_getitem(input_df, feature_names)
                /\ pc' = "call_cb"
                /\ error' = error
    /\ UNCHANGED <<files, fileEvents, cache, loadCount, loadSnapshot, eftm_model,
                   preds, calls, p_final, prev>>
    /\ UNCHANGED combVars

CallPc == <<"call_cb", "call_xgb", "call_lgbm", "call_ab", "combine">>

\* The four models in the order main calls them
ModelOf(c, i) ==
    CASE i = 1 -> c.cb[1] [] i = 2 -> c.xgb_m[1] [] i = 3 -> c.lgbm[1] [] i = 4 -> c.ab[1]

\* A mutant of the handler: the failed call is made again.
OnPredictRaise_Retry(i) == CallPc[i]

\* except Exception: st.error, st.stop()
OnPredictRaise(i) == "stopped_predict"

\* One of lines 182-185: model i's predict returns its scalar, or raises.
CallModel(i) ==
    /\ pc = CallPc[i]
    /\ calls' = [calls EXCEPT ![i] = @ + 1]
    /\ \/ /\ preds' = Append(preds, ModelOf(cache[1], i).ret)
          /\ pc' = CallPc[i + 1]
          /\ error' = error
       \/ /\ error' = <<[kind |-> "predict", detail |-> <<"predict failed">>, at |-> i]>>
          /\ pc' = OnPredictRaise(i)
          /\ preds' = preds
    /\ UNCHANGED <<files, fileEvents, cache, loadCount, loadSnapshot, eftm_model,
                   input_df, p_final, prev>>
    /\ UNCHANGED combVars

PredictCB == CallModel(1)
PredictXGB == CallModel(2)
PredictLGBM == CallModel(3)
PredictAB == CallModel(4)

\* Line 186: p_final = eftm_model.predict(p_cb, p_xgb, p_lgbm, p_ab)
Combine ==
    /\ pc = "combine"
    /\ p_final' = <<EFTMModel_predict(eftm_model[1], preds[1], preds[2], preds[3], preds[4])>>
    /\ pc' = "done"
    /\ UNCHANGED <<files, fileEvents, cache, loadCount, loadSnapshot, eftm_model,
                   input_df, preds, calls, error, prev>>
    /\ UNCHANGED combVars

Next ==
    \/ FileChange
    \/ RunScript
    \/ ClickPredict
    \/ Align
    \/ PredictCB
    \/ PredictXGB
    \/ PredictLGBM
    \/ PredictAB
    \/ Combine
    \/ EndRun

Spec == Init /\ [][Next]_vars

-----------------------------------------------------------------------------
(* The Ensemble Combiner on its own: EFTMModel.predict applied to drawn inputs *)

CVals == -1..InputMax
Quads == [1..4 -> CVals]
Scalars == -1..ScaleMax

\* The default weights, and another set of construction-time weights
QModels == {EFTMModel_default, EFTMModel_init(500000, 0, 250000, 750000)}

Predict4(self, q) == EFTMModel_predict(self, q[1], q[2], q[3], q[4])

InitCombiner ==
    /\ files = [f \in ArtifactSet |-> "ok"]
    /\ fileEvents = 0
    /\ cache = <<>>
    /\ loadCount = 0
    /\ loadSnapshot = <<>>
    /\ pc = "idle"
    /\ eftm_model = <<>>
    /\ input_df = <<>>
    /\ preds = <<>>
    /\ calls = NoCalls
    /\ p_final = <<>>
    /\ error = <<>>
    /\ prev = "none"
    /\ qm \in QModels
    /\ qx \in Quads
    /\ qy \in Quads
    /\ qk \in Scalars
    /\ qout = <<>>

\* predict on x, on y, on x + y and on k * x
Evaluate ==
    /\ qout = <<>>
    /\ qout' = <<[fx |-> Predict4(qm, qx),
                  fy |-> Predict4(qm, qy),
                  fsum |-> Predict4(qm, [i \in 1..4 |-> qx[i] + qy[i]]),
                  fscaled |-> Predict4(qm, [i \in 1..4 |-> qk * qx[i]])]>>
    /\ UNCHANGED <<qm, qx, qy, qk>>
    /\ UNCHANGED procVars

NextCombiner == Evaluate

SpecCombiner == InitCombiner /\ [][NextCombiner]_vars

-----------------------------------------------------------------------------
(* Claims *)

\* C1: with the default weights predict returns exactly
\* 0.385412*p_cb + 0.294103*p_xgb + 0.211438*p_lgbm + 0.109047*p_ab (scaled by 10^6):
\* not divided by the sum of the weights, not clipped, and always a number.
C1_WeightedSum ==
    (qout # <<>> /\ qm = EFTMModel_default) =>
        /\ qout[1].fx \in Int
        /\ qout[1].fx = 385412 * qx[1] + 294103 * qx[2] + 211438 * qx[3] + 109047 * qx[4]

\* C1 witness: predict has run on a quadruple with a negative, a zero and a positive entry.
C1_Witness ==
    /\ qout # <<>>
    /\ qm = EFTMModel_default
    /\ qx = <<1, -1, 0, 1>>
    /\ qout[1].fx = 200356

\* C3: predict is linear for any fixed weights: predict(k*x) = k*predict(x) and
\* predict(x + y) = predict(x) + predict(y).
C3_Linear ==
    qout # <<>> =>
        /\ qout[1].fscaled = qk * qout[1].fx
        /\ qout[1].fsum = qout[1].fx + qout[1].fy

\* C3 witness: predict has run on two quadruples of opposite sign and a scalar other than 0 and 1.
C3_Witness ==
    /\ qout # <<>>
    /\ qk = 2
    /\ qx = <<1, 1, 0, -1>>
    /\ qy = <<-1, -1, -1, 0>>
    /\ qout[1].fx > 0
    /\ qout[1].fy < 0

-----------------------------------------------------------------------------
(* The script run as a whole *)

\* load_models gave four models and a feature-name list
Loaded(c) ==
    /\ c # <<>>
    /\ c[1].cb # <<>> /\ c[1].xgb_m # <<>> /\ c[1].lgbm # <<>> /\ c[1].ab # <<>>
    /\ c[1].feats # <<>>
    /\ c[1].missing_files = <<>>

PredictingPcs == {"call_cb", "call_xgb", "call_lgbm", "call_ab", "combine", "done",
                  "stopped_predict"}

PastLoadPcs == {"form", "merged", "stopped_missing"} \cup PredictingPcs

NoModelRan == calls = NoCalls /\ preds = <<>> /\ p_final = <<>>

SeqSet(q) == {q[i] : i \in DOMAIN q}

\* The four loaded models are the stubs returning 1.0, 2.0, 3.0 and 4.0
StubsOneToFour ==
    /\ Loaded(cache)
    /\ \A i \in 1..4 : ModelOf(cache[1], i).ret = i

\* C2 as stated: in that scenario the ensemble result is 2.081903 (tolerance 1e-6).
C2_Original ==
    (pc = "done" /\ StubsOneToFour) =>
        /\ p_final # <<>>
        /\ p_final[1] - 2081903 <= 1
        /\ 2081903 - p_final[1] <= 1

\* C2: end-to-end, with all artifacts loaded, a feature-name list covered by the form's
\* fields and the time features, and stub models returning 1.0, 2.0, 3.0 and 4.0, a
\* prediction request with the default weights yields 2.044120.
C2_EndToEnd ==
    (pc = "done" /\ StubsOneToFour) =>
        /\ preds = <<1, 2, 3, 4>>
        /\ p_final = <<2044120>>

\* C2 witness: such a request has completed, on a two-name feature list.
C2_Witness ==
    /\ pc = "done"
    /\ StubsOneToFour
    /\ Len(cache[1].feats[1]) = 2
    /\ SeqSet(cache[1].feats[1]) \subseteq MergedNames
    /\ p_final = <<2044120>>

\* C4: whenever feature construction succeeds, the frame handed to the models has exactly
\* the feature-name list's names in the list's order, whatever the insertion order of the
\* merged mapping; the merged names outside the list are dropped and reach no model.
C4_Aligned ==
    /\ [](pc \in PredictingPcs =>
            /\ ColumnNames(input_df) = cache[1].feats[1]
            /\ \A n \in MergedNames \ SeqSet(cache[1].feats[1]) : n \notin ColumnSet(input_df))
    /\ [][(pc = "merged" /\ pc' \in PredictingPcs) =>
            /\ ColumnNames(input_df') = cache[1].feats[1]
            /\ \A i \in DOMAIN input_df' :
                  input_df'[i].value = ValueOf(input_df, input_df'[i].name)]_vars

\* C4 witness: a model was called on a frame aligned to <<hour_sin, inflow>>, the reverse
\* of the order in which main fills the mapping, with aerobic_south_pH dropped.
C4_Witness ==
    /\ pc = "call_xgb"
    /\ calls[1] = 1
    /\ cache[1].feats[1] = <<"hour_sin", "inflow">>
    /\ ColumnNames(input_df) = <<"hour_sin", "inflow">>
    /\ input_df[1].value = 1
    /\ input_df[2].value = 0

\* The loaded feature-name list names a field that is neither a sensor field nor a time feature
SchemaHasAbsentName ==
    /\ Loaded(cache)
    /\ \E n \in SeqSet(cache[1].feats[1]) : n \notin SensorNames \cup TimeNames

\* C5: if the feature-name list has a name that is neither a sensor field nor a time
\* feature, the request ends in a Missing Feature error naming the absent field, with no
\* model invoked and no ensemble result, and the process goes on serving requests.
C5_MissingFeature ==
    /\ SchemaHasAbsentName => (pc \notin PredictingPcs /\ NoModelRan)
    /\ pc = "stopped_missing" =>
        /\ SchemaHasAbsentName
        /\ error # <<>>
        /\ error[1].kind = "missing"
        /\ \A n \in SeqSet(cache[1].feats[1]) :
              n \notin SensorNames \cup TimeNames => n \in SeqSet(error[1].detail)
    /\ (pc = "merged" /\ ~SchemaHasAbsentName) => MissingKeys(input_df, cache[1].feats[1]) = <<>>
    /\ prev = "stopped_missing" => (Loaded(cache) /\ pc \in {"idle", "form", "merged", "stopped_missing"})

\* C5 witness: a second request ended in the Missing Feature error, after a first one did.
C5_Witness ==
    /\ pc = "stopped_missing"
    /\ prev = "stopped_missing"
    /\ cache[1].feats[1] = <<"inflow", "effluent_COD">>
    /\ error[1].detail = <<"effluent_COD">>
    /\ NoModelRan

\* Some artifact was absent or corrupt when load_models ran
LoadSawBadArtifact ==
    /\ loadSnapshot # <<>>
    /\ \E f \in ArtifactSet : loadSnapshot[1][f] # "ok"

\* C6: if any of the five artifacts is missing or cannot be deserialized, every request
\* stops at the load check: no model is invoked and no prediction produced with fewer
\* than the four models and the feature-name list loaded.
C6_NoPartialOperation ==
    /\ LoadSawBadArtifact => (pc \in {"idle", "stopped_load"} /\ NoModelRan /\ ~Loaded(cache))
    /\ (pc \in PastLoadPcs \/ ~NoModelRan) =>
          (Loaded(cache) /\ \A f \in ArtifactSet : loadSnapshot[1][f] = "ok")

\* C6 witness: a later request stopped at the load check again; only the feature-name
\* list was corrupt at the load.
C6_Witness ==
    /\ pc = "stopped_load"
    /\ prev = "stopped_load"
    /\ loadSnapshot # <<>>
    /\ \A f \in ArtifactSet : loadSnapshot[1][f] = (IF f = "feature_names.pkl" THEN "corrupt" ELSE "ok")
    /\ NoModelRan

\* C7: a Load Failure is reported with the names of exactly the artifacts that were
\* absent or failed to deserialize.
C7_ReportsFailedArtifacts ==
    (pc = "stopped_load" /\ error # <<>>) =>
        SeqSet(error[1].detail) = {f \in ArtifactSet : loadSnapshot[1][f] # "ok"}

\* C8: if a model's predict raises, the request is aborted with an error shown, without
\* an ensemble result, without invoking the later models, without a retry (each model is
\* invoked at most once per request), and a later request can still complete.
C8_PredictionFailure ==
    /\ \A i \in 1..4 : calls[i] <= 1
    /\ (error # <<>> /\ error[1].kind = "predict") =>
        /\ pc = "stopped_predict"
        /\ p_final = <<>>
        /\ Len(preds) = error[1].at - 1
        /\ \A j \in 1..4 : calls[j] = (IF j <= error[1].at THEN 1 ELSE 0)
    /\ pc = "stopped_predict" => (error # <<>> /\ error[1].kind = "predict")
    /\ prev = "stopped_predict" => Loaded(cache)

\* C8 witness: a request completed after the previous one was aborted by a raising model.
C8_Witness ==
    /\ pc = "done"
    /\ prev = "stopped_predict"
    /\ p_final # <<>>
    /\ calls = [i \in 1..4 |-> 1]

\* C9: the body of load_models runs at most once; its first outcome (what it returns on
\* the directory as it was then) is cached and returned to every later request, never
\* reloaded or invalidated, so a failed load keeps failing and a successful one keeps serving.
C9_LoadedOnce ==
    /\ loadCount <= 1
    /\ (cache = <<>>) <=> (loadCount = 0)
    /\ (cache = <<>>) <=> (loadSnapshot = <<>>)
    /\ cache # <<>> =>
        LET bank == IF Loaded(cache) THEN [i \in 1..4 |-> ModelOf(cache[1], i).ret]
                    ELSE <<1, 2, 3, 4>>
            feats == IF Loaded(cache) THEN cache[1].feats[1] ELSE <<>>
        IN  /\ bank \in StubBanks
            /\ feats \in Schemas
            /\ \E msg \in ExcTexts : cache[1] = load_models(loadSnapshot[1], bank, feats, msg)
    /\ (cache = <<>> /\ prev = "none") => pc = "idle"
    /\ (cache # <<>> /\ ~Loaded(cache)) => pc \in {"idle", "stopped_load"}

\* C9 witness: a later request is refused with the cached failure although every
\* artifact is in place by now.
C9_Witness ==
    /\ pc = "stopped_load"
    /\ prev = "stopped_load"
    /\ loadCount = 1
    /\ \A f \in ArtifactSet : files[f] = "ok"
    /\ ~Loaded(cache)

\* C10: in every state the ensemble weights in use are the non-negative construction-time
\* defaults; predict leaves them unchanged and no request derives them from the Observation.
C10_FixedWeights ==
    /\ pc \in PastLoadPcs => eftm_model # <<>>
    /\ eftm_model # <<>> =>
        /\ eftm_model[1] = [w_cb |-> 385412, w_xgb |-> 294103, w_lgbm |-> 211438, w_ab |-> 109047]
        /\ eftm_model[1].w_cb >= 0 /\ eftm_model[1].w_xgb >= 0
        /\ eftm_model[1].w_lgbm >= 0 /\ eftm_model[1].w_ab >= 0

\* C10 witness: a second request completed on a non-zero Observation, after predict ran.
C10_Witness ==
    /\ pc = "done"
    /\ prev = "done"
    /\ p_final # <<>>
    /\ \E i \in DOMAIN input_df : input_df[i].value # 0
    /\ eftm_model # <<>>
    /\ eftm_model[1].w_ab = 109047

====
